---- MODULE Spec2Model ----
(***************************************************************************)
(* A model of native/usnscanner/addon.cpp: the three worker operations     *)
(* scan (ScanUsnWorker), getFileRecord (FileRecordWorker) and              *)
(* recoverDataRuns (DataRunRecoveryWorker), with the system calls they     *)
(* make (CreateFileW, DeviceIoControl, SetFilePointerEx, ReadFile,         *)
(* WriteFile, CloseHandle) as the environment.                             *)
(*                                                                         *)
(* Strings are sequences of character codes.  Machine integers keep their  *)
(* wrap-around, at a reduced width: a DWORD has DwordBits bits and a       *)
(* ULONGLONG / size_t / LONGLONG twice as many, so that the wrap-around    *)
(* cases are within reach of the model checker.                            *)
(***************************************************************************)
EXTENDS Integers, Sequences, FiniteSets, TLC

VARIABLES
    op,             \* which worker runs: "recover", "scan" or "record"
    pc,             \* position inside Execute()
    drive_,         \* the worker's drive_ member
    volume,         \* the raw volume handle and what was done with it
    output,         \* the output file and its handle (recoverDataRuns)
    result,         \* "none" while running, then "ok" or "error"
    errorMessage,   \* the text given to SetError
    \* DataRunRecoveryWorker
    runs_, clusterSize_, fileSize_, outputPath_,
    bufferSize,     \* buffer.size() = zeroBuffer.size()
    remaining, runIndex, bytesToCopy, processed,
    \* ScanUsnWorker
    journal,        \* what the volume's change journal holds (the environment)
    med,            \* med.StartFileReferenceNumber
    issued,         \* history: the start reference of every control call
    fileTable, deleted, results_,
    parsed,         \* history: the USN records the scan has parsed, in order
    itemIndex,      \* the position of the loop over deleted
    fullPath, segments, current, guard,
    joinIndex,      \* the position of the reverse loop over segments
    \* FileRecordWorker
    mft,            \* what FSCTL_GET_NTFS_FILE_RECORD answers (the environment)
    geometry,       \* what GetDiskFreeSpaceW answers (the environment)
    sectorsPerCluster, bytesPerSector,
    outBuffer,      \* bytesReturned and the output buffer after the control
    details_,       \* the FileRecordDetails member
    jsRecord,       \* the object OnOK hands to the callback
    \* ParseRunList and ReadSignedValue called on their own
    wideShift,      \* what this build makes of a 64-bit shift by 64 or more
    callArgs,       \* the arguments of the call
    returned        \* what the call returned

commonVars  == <<op, pc, drive_, volume, output, result, errorMessage>>
recoverArgs == <<runs_, clusterSize_, fileSize_, outputPath_>>
recoverLoc  == <<bufferSize, remaining, runIndex, bytesToCopy, processed>>
recoverVars == <<recoverArgs, recoverLoc>>
scanEnum    == <<med, issued, fileTable, deleted, parsed>>
scanPath    == <<itemIndex, fullPath, segments, current, guard, joinIndex>>
scanVars    == <<journal, scanEnum, results_, scanPath>>
recordLoc   == <<sectorsPerCluster, bytesPerSector, outBuffer, details_, jsRecord>>
recordVars  == <<mft, geometry, recordLoc>>
callVars    == <<callArgs, returned>>
vars == <<commonVars, recoverVars, scanVars, recordVars, wideShift, callVars>>
notRecover  == <<scanVars, recordVars, wideShift, callVars>>
notScan     == <<recoverVars, recordVars, output, wideShift, callVars>>
notRecord   == <<recoverVars, scanVars, output, wideShift, callVars>>
notCall     == <<recoverVars, scanVars, recordVars, drive_, volume, output,
                 errorMessage, wideShift>>

\* The locals of a worker before it runs, and the members of a worker that
\* is not the one running
RecoverIdle ==
    /\ bufferSize = 0 /\ remaining = 0 /\ runIndex = 0
    /\ bytesToCopy = 0 /\ processed = 0

NoRecover ==
    /\ runs_ = <<>> /\ clusterSize_ = 0 /\ fileSize_ = 0 /\ outputPath_ = <<>>
    /\ RecoverIdle

ScanIdle ==
    /\ med = 0 /\ issued = <<>>
    /\ fileTable = <<>> /\ deleted = <<>> /\ results_ = <<>>
    /\ parsed = <<>> /\ itemIndex = 1 /\ fullPath = <<>> /\ segments = <<>>
    /\ current = 0 /\ guard = 0 /\ joinIndex = 0

NoScan == journal = <<>> /\ ScanIdle

NoReply == [ok |-> FALSE, bytesReturned |-> 0]
NoGeometry == [sectorsPerCluster |-> 0, bytesPerSector |-> 0]
NoDetails == [attributes |-> <<>>]
NoJsRecord == [attributes |-> <<>>]

RecordIdle ==
    /\ sectorsPerCluster = 0 /\ bytesPerSector = 0
    /\ outBuffer = NoReply /\ details_ = NoDetails /\ jsRecord = NoJsRecord

NoRecord == mft = NoReply /\ geometry = NoGeometry /\ RecordIdle

NoCall == callArgs = <<>> /\ returned = <<>>

---------------------------------------------------------------------------
(* Machine integers *)

DwordBits == 8
U32 == 2 ^ DwordBits                \* DWORD values are 0 .. U32 - 1
U64 == U32 * U32                    \* ULONGLONG and size_t values are 0 .. U64 - 1
I64Max == (U64 \div 2) - 1          \* LONGLONG values are -(I64Max + 1) .. I64Max

ToU32(n) == n % U32
ToU64(n) == n % U64
ToI64(n) == LET m == n % U64 IN IF m > I64Max THEN m - U64 ELSE m

Min(a, b) == IF a <= b THEN a ELSE b

\* LONGLONG * LONGLONG.  A product outside the range is undefined behaviour:
\* the build may wrap it or produce any other value.
SignedMul(a, b) ==
    IF a * b >= -(I64Max + 1) /\ a * b <= I64Max
    THEN {a * b}
    ELSE {ToI64(a * b), 0, I64Max}

---------------------------------------------------------------------------
(* Characters and the volume device path *)

Backslash == 92
Dot == 46
Colon == 58

\* ::towupper / ::toupper of an unsigned char, "C" locale
ToUpper(c) == IF c >= 97 /\ c <= 122 THEN c - 32 ELSE c

\* What the compiler makes of the text between the quotes of a string
\* literal: the escape \\ is one backslash.
RECURSIVE Unescape(_)
Unescape(src) ==
    IF src = <<>> THEN <<>>
    ELSE IF Len(src) >= 2 /\ src[1] = Backslash /\ src[2] = Backslash
         THEN <<Backslash>> \o Unescape(SubSeq(src, 3, Len(src)))
         ELSE <<src[1]>> \o Unescape(Tail(src))

\* The literal at line 790: L"\\\\.\\"
RecoverPrefixLiteral == <<Backslash, Backslash, Backslash, Backslash, Dot, Backslash, Backslash>>

\* volumePath = prefix; push_back(driveChar); push_back(L':')
VolumePath(literal, drive) == Unescape(literal) \o <<ToUpper(drive[1]), Colon>>

---------------------------------------------------------------------------
(* Handles *)

NoHandle == [handle |-> "none", closes |-> 0, misused |-> FALSE,
             path |-> <<>>, pointer |-> 0, calls |-> {}, last |-> "none"]

\* CreateFileW(path, ...) returning a handle, or INVALID_HANDLE_VALUE
CreateFileW(h, path, ok) ==
    [h EXCEPT !.handle = IF ok THEN "open" ELSE "none",
              !.path = path,
              !.calls = @ \cup {"CreateFileW"},
              !.last = "CreateFileW"]

\* Any call that takes the handle: using one that is not open is recorded
Use(h, call) ==
    [h EXCEPT !.misused = @ \/ (h.handle # "open"),
              !.calls = @ \cup {call},
              !.last = call]

CloseHandle(h) ==
    [Use(h, "CloseHandle") EXCEPT !.handle = "closed", !.closes = @ + 1]

---------------------------------------------------------------------------
(* The volume's bytes and the output file *)

\* The byte stored at an absolute offset of the volume: never 0, and
\* different at neighbouring offsets.
VolumeByte(off) == 1 + (off % 255)

VolumeBytes == 400          \* the size of the volume, in bytes

Zeros(n) == [i \in 1..n |-> 0]
VolumeData(off, n) == [i \in 1..n |-> VolumeByte(off + i - 1)]

\* What the output path holds before the call
OldContent == <<7, 7, 7>>
NoOutput == [handle |-> "none", closes |-> 0, misused |-> FALSE,
             path |-> <<>>, file |-> OldContent, calls |-> {}, last |-> "none"]

\* ReadFile succeeded: the bytes it may have read when asked for req with
\* avail left before the end of the volume.
ReadOutcomes(req, avail) ==
    LET most == Min(req, IF avail > 0 THEN avail ELSE 0)
    IN  IF most = 0 THEN {0} ELSE {1, most}

\* WriteFile succeeded: the bytes it may report written when asked for req
WriteOutcomes(req) == IF req = 0 THEN {0} ELSE {1, req}

---------------------------------------------------------------------------
(* DataRunRecoveryWorker::Execute *)

chunkClusters == 16

\* std::vector<BYTE>(n) throws std::length_error when n > max_size()
MaxVectorSize == I64Max

\* line 844.  The mutant forgets the lcn <= 0 half of the test.
IsSparseRun_FlagOnly(run) == run.sparse
IsSparseRun(run) == run.sparse \/ run.lcn <= 0

\* line 841: static_cast<ULONGLONG>(run.length) * clusterSize_
RunBytesTotal(run, clusterSize) == ToU64(ToU64(run.length) * clusterSize)

\* line 842.  The mutant copies the whole run whatever is left to write.
BytesToCopy_NoClamp(run, clusterSize, left) == RunBytesTotal(run, clusterSize)
BytesToCopy(run, clusterSize, left) == Min(RunBytesTotal(run, clusterSize), left)

\* lines 769-787: the message of the first argument check that fails, or ""
\* The mutant drops the check of fileSize_.
ArgumentError_NoFileSize(drive, clusterSize, fileSize, outputPath) ==
    IF drive = <<>> THEN "Drive letter is required"
    ELSE IF clusterSize = 0 THEN "Cluster size is required"
    ELSE IF outputPath = <<>> THEN "Output path is required"
    ELSE ""
ArgumentError(drive, clusterSize, fileSize, outputPath) ==
    IF drive = <<>> THEN "Drive letter is required"
    ELSE IF clusterSize = 0 THEN "Cluster size is required"
    ELSE IF fileSize = 0 THEN "Target file size is zero"
    ELSE IF outputPath = <<>> THEN "Output path is required"
    ELSE ""

Fail(msg) ==
    /\ pc' = "done"
    /\ result' = "error"
    /\ errorMessage' = msg

\* lines 769-787: the argument checks
RCheckArgs ==
    /\ op = "recover" /\ UNCHANGED notRecover /\ pc = "args"
    /\ LET error == ArgumentError(drive_, clusterSize_, fileSize_, outputPath_)
       IN  IF error # "" THEN Fail(error)
           ELSE pc' = "openVolume" /\ UNCHANGED <<result, errorMessage>>
    /\ UNCHANGED <<op, drive_, volume, output, recoverVars>>

\* lines 789-808
ROpenVolume ==
    /\ op = "recover" /\ UNCHANGED notRecover /\ pc = "openVolume"
    /\ \E ok \in BOOLEAN :
        /\ volume' = CreateFileW(volume, VolumePath(RecoverPrefixLiteral, drive_), ok)
        /\ IF ok THEN pc' = "openOutput" /\ UNCHANGED <<result, errorMessage>>
                 ELSE Fail("CreateFile (volume) failed")
    /\ UNCHANGED <<op, drive_, output, recoverVars>>

\* lines 810-825: CREATE_ALWAYS empties the file when it succeeds
ROpenOutput ==
    /\ op = "recover" /\ UNCHANGED notRecover /\ pc = "openOutput"
    /\ \E ok \in BOOLEAN :
        IF ok
        THEN /\ output' = [CreateFileW(output, outputPath_, TRUE) EXCEPT !.file = <<>>]
             /\ pc' = "alloc"
             /\ UNCHANGED <<volume, result, errorMessage>>
        ELSE /\ output' = CreateFileW(output, outputPath_, FALSE)
             /\ volume' = CloseHandle(volume)
             /\ Fail("CreateFile (output) failed")
    /\ UNCHANGED <<op, drive_, recoverVars>>

\* lines 827-831: the two buffers.  A size the vector cannot have makes its
\* constructor throw; Execute is left by the exception, which the worker
\* runtime reports as the operation's error.
RAllocBuffers ==
    /\ op = "recover" /\ UNCHANGED notRecover /\ pc = "alloc"
    /\ LET size == ToU64(clusterSize_ * chunkClusters)
       IN  IF size > MaxVectorSize
           THEN /\ Fail("vector too long")
                /\ UNCHANGED recoverLoc
           ELSE /\ bufferSize' = size
                /\ remaining' = fileSize_
                /\ runIndex' = 1
                /\ pc' = "run"
                /\ UNCHANGED <<bytesToCopy, processed, result, errorMessage>>
    /\ UNCHANGED <<op, drive_, volume, output, recoverArgs>>

\* lines 832-844: the head of the loop over runs_
RNextRun ==
    /\ op = "recover" /\ UNCHANGED notRecover /\ pc = "run"
    /\ IF runIndex > Len(runs_) \/ remaining = 0
       THEN pc' = "pad" /\ UNCHANGED <<runIndex, bytesToCopy, processed>>
       ELSE LET run == runs_[runIndex]
            IN  IF run.length <= 0
                THEN /\ runIndex' = runIndex + 1
                     /\ UNCHANGED <<pc, bytesToCopy, processed>>
                ELSE /\ bytesToCopy' = BytesToCopy(run, clusterSize_, remaining)
                     /\ processed' = 0
                     /\ pc' = IF IsSparseRun(run) THEN "sparse" ELSE "seek"
                     /\ UNCHANGED runIndex
    /\ UNCHANGED <<op, drive_, volume, output, result, errorMessage,
                   recoverArgs, bufferSize, remaining>>

\* line 902 and the loop's increment
EndOfRun ==
    /\ remaining' = ToU64(remaining - bytesToCopy)
    /\ runIndex' = runIndex + 1
    /\ pc' = "run"

\* lines 845-857: one turn of the loop writing zeros for a sparse run
RSparseWrite ==
    /\ op = "recover" /\ UNCHANGED notRecover /\ pc = "sparse"
    /\ IF processed < bytesToCopy
       THEN LET chunk == Min(bytesToCopy - processed, bufferSize)
            IN  \/ \E written \in WriteOutcomes(ToU32(chunk)) :
                      /\ output' = [Use(output, "WriteFile") EXCEPT
                                        !.file = @ \o Zeros(written)]
                      /\ processed' = ToU64(processed + written)
                      /\ UNCHANGED <<pc, volume, result, errorMessage,
                                     remaining, runIndex>>
                \/ /\ output' = CloseHandle(Use(output, "WriteFile"))
                   /\ volume' = CloseHandle(volume)
                   /\ Fail("WriteFile (sparse) failed")
                   /\ UNCHANGED <<processed, remaining, runIndex>>
       ELSE /\ EndOfRun
            /\ UNCHANGED <<volume, output, result, errorMessage, processed>>
    /\ UNCHANGED <<op, drive_, recoverArgs, bufferSize, bytesToCopy>>

\* lines 859-870: position the volume at the run's first cluster.  A
\* negative distance is refused by SetFilePointerEx.
RSeek ==
    /\ op = "recover" /\ UNCHANGED notRecover /\ pc = "seek"
    /\ \E absoluteOffset \in SignedMul(runs_[runIndex].lcn, ToI64(clusterSize_)),
          ok \in BOOLEAN :
        IF ok /\ absoluteOffset >= 0
        THEN /\ volume' = [Use(volume, "SetFilePointerEx") EXCEPT
                               !.pointer = absoluteOffset]
             /\ pc' = "copy"
             /\ UNCHANGED <<output, result, errorMessage>>
        ELSE /\ volume' = CloseHandle(Use(volume, "SetFilePointerEx"))
             /\ output' = CloseHandle(output)
             /\ Fail("SetFilePointerEx failed")
    /\ UNCHANGED <<op, drive_, recoverVars>>

\* lines 871-899: one turn of the loop copying a run from the volume
RCopyChunk ==
    /\ op = "recover" /\ UNCHANGED notRecover /\ pc = "copy"
    /\ IF processed < bytesToCopy
       THEN LET chunk == Min(bytesToCopy - processed, bufferSize)
                avail == VolumeBytes - volume.pointer
            IN  \/ \E read \in ReadOutcomes(ToU32(chunk), avail) :
                      IF read = 0
                      THEN /\ volume' = CloseHandle(Use(volume, "ReadFile"))
                           /\ output' = CloseHandle(output)
                           /\ Fail("Unexpected end of volume data while reading run")
                           /\ UNCHANGED <<processed, remaining, runIndex>>
                      ELSE \/ /\ volume' = [Use(volume, "ReadFile") EXCEPT
                                                !.pointer = @ + read]
                              /\ output' = [Use(output, "WriteFile") EXCEPT
                                                !.file = @ \o VolumeData(volume.pointer, read)]
                              /\ processed' = ToU64(processed + read)
                              /\ UNCHANGED <<pc, result, errorMessage,
                                             remaining, runIndex>>
                           \/ /\ volume' = CloseHandle(Use(volume, "ReadFile"))
                              /\ output' = CloseHandle(Use(output, "WriteFile"))
                              /\ Fail("WriteFile failed")
                              /\ UNCHANGED <<processed, remaining, runIndex>>
                \/ /\ volume' = CloseHandle(Use(volume, "ReadFile"))
                   /\ output' = CloseHandle(output)
                   /\ Fail("ReadFile failed")
                   /\ UNCHANGED <<processed, remaining, runIndex>>
       ELSE /\ EndOfRun
            /\ UNCHANGED <<volume, output, result, errorMessage, processed>>
    /\ UNCHANGED <<op, drive_, recoverArgs, bufferSize, bytesToCopy>>

\* lines 905-918: one turn of the padding loop
RPad ==
    /\ op = "recover" /\ UNCHANGED notRecover /\ pc = "pad"
    /\ IF remaining > 0
       THEN LET chunk == Min(remaining, bufferSize)
            IN  \/ \E written \in WriteOutcomes(ToU32(chunk)) :
                      /\ output' = [Use(output, "WriteFile") EXCEPT
                                        !.file = @ \o Zeros(written)]
                      /\ remaining' = ToU64(remaining - written)
                      /\ UNCHANGED <<pc, volume, result, errorMessage>>
                \/ /\ output' = CloseHandle(Use(output, "WriteFile"))
                   /\ volume' = CloseHandle(volume)
                   /\ Fail("WriteFile (padding) failed")
                   /\ UNCHANGED remaining
       ELSE /\ pc' = "close"
            /\ UNCHANGED <<volume, output, result, errorMessage, remaining>>
    /\ UNCHANGED <<op, drive_, recoverArgs, bufferSize, runIndex,
                   bytesToCopy, processed>>

\* lines 920-922: the successful end
RClose ==
    /\ op = "recover" /\ UNCHANGED notRecover /\ pc = "close"
    /\ output' = CloseHandle(output)
    /\ volume' = CloseHandle(volume)
    /\ pc' = "done"
    /\ result' = "ok"
    /\ UNCHANGED <<op, drive_, errorMessage, recoverVars>>

---------------------------------------------------------------------------
(* ScanUsnWorker::Execute *)

\* The literal at line 377: L"\\.\\"
ScanPrefixLiteral == <<Backslash, Backslash, Dot, Backslash, Backslash>>

sizeofULONGLONG == 8
sizeofUSN_RECORD_V2 == 64
USN_REASON_FILE_DELETE == 512
FILE_ATTRIBUTE_DIRECTORY == 16
maxDepth == 1024

\* a & b of two non-negative integers
RECURSIVE BitAnd(_, _)
BitAnd(a, b) ==
    IF a = 0 \/ b = 0 THEN 0
    ELSE (a % 2) * (b % 2) + 2 * BitAnd(a \div 2, b \div 2)

\* WideCharToMultiByte(CP_UTF8, ...) of UTF-16 code units outside the
\* surrogate range: one, two or three bytes per unit (lines 105-118)
RECURSIVE WideToUtf8(_)
WideToUtf8(input) ==
    IF input = <<>> THEN <<>>
    ELSE LET c == Head(input)
         IN  (IF c < 128 THEN <<c>>
              ELSE IF c < 2048 THEN <<192 + (c \div 64), 128 + (c % 64)>>
              ELSE <<224 + (c \div 4096), 128 + ((c \div 64) % 64), 128 + (c % 64)>>)
             \o WideToUtf8(Tail(input))

\* line 476.  The mutant compares the whole mask instead of testing the bit.
IsFileDelete_WholeMask(reason) == reason = USN_REASON_FILE_DELETE
IsFileDelete(reason) == BitAnd(reason, USN_REASON_FILE_DELETE) # 0

\* line 474: fileTable[fileRef] = {...}.  The mutant keeps an entry the
\* table already has (std::unordered_map::insert).
TableStore_KeepFirst(table, fileRef, entry) ==
    IF fileRef \in DOMAIN table THEN table ELSE (fileRef :> entry) @@ table
TableStore(table, fileRef, entry) == (fileRef :> entry) @@ table

\* lines 468-485: one record taken into the file table and, when it is a
\* deletion, into deleted
TakeRecord(st, record) ==
    LET fileRef == record.FileReferenceNumber
        parentRef == record.ParentFileReferenceNumber
        wName == SubSeq(record.FileName, 1, record.FileNameLength \div 2)
        name == WideToUtf8(wName)
        isDirectory == BitAnd(record.FileAttributes, FILE_ATTRIBUTE_DIRECTORY) # 0
        entry == [parentRef |-> parentRef, name |-> name, isDirectory |-> isDirectory]
        item == [fileRef |-> fileRef, parentRef |-> parentRef, name |-> name,
                 isDirectory |-> isDirectory, reason |-> record.Reason]
    IN  [fileTable |-> TableStore(st.fileTable, fileRef, entry),
         deleted |-> IF IsFileDelete(record.Reason)
                     THEN Append(st.deleted, item) ELSE st.deleted,
         parsed |-> Append(st.parsed, record)]

\* The record as the loop saw it: with the bytes that were left in the batch
\* from its first byte on (history)
Seen(record, recordBytes) == [recordBytes |-> recordBytes] @@ record

\* What lies at recordPtr after line 488 added a RecordLength of 8 that is
\* shorter than the record: the record's bytes from its FileReferenceNumber
\* on, of which the low double word is read as the next RecordLength.
Overlap(record) ==
    [RecordLength |-> record.FileReferenceNumber % U32,
     size |-> record.size - record.RecordLength]

\* lines 458-489: the loop over the records of one batch.  records are the
\* records as they lie in the buffer from recordPtr on.  The mutant steps
\* over a record of a bad RecordLength and goes on with the one after it.
RECURSIVE ParseRecords_SkipBad(_, _, _)
ParseRecords_SkipBad(st, records, recordBytes) ==
    IF recordBytes <= 0 \/ records = <<>> THEN st
    ELSE IF recordBytes < sizeofUSN_RECORD_V2 THEN st
    ELSE LET record == Head(records)
         IN  IF record.RecordLength = 0 \/ record.RecordLength > recordBytes
             THEN ParseRecords_SkipBad(st, Tail(records),
                                       ToU32(recordBytes - record.size))
             ELSE ParseRecords_SkipBad(TakeRecord(st, Seen(record, recordBytes)),
                               IF record.RecordLength < record.size
                               THEN <<Overlap(record)>> \o Tail(records)
                               ELSE Tail(records),
                               ToU32(recordBytes - record.RecordLength))

RECURSIVE ParseRecords(_, _, _)
ParseRecords(st, records, recordBytes) ==
    IF recordBytes <= 0 \/ records = <<>> THEN st
    ELSE IF recordBytes < sizeofUSN_RECORD_V2 THEN st
    ELSE LET record == Head(records)
         IN  IF record.RecordLength = 0 \/ record.RecordLength > recordBytes
             THEN st
             ELSE ParseRecords(TakeRecord(st, Seen(record, recordBytes)),
                               IF record.RecordLength < record.size
                               THEN <<Overlap(record)>> \o Tail(records)
                               ELSE Tail(records),
                               ToU32(recordBytes - record.RecordLength))

\* FSCTL_ENUM_USN_DATA (lines 428-437): the journal is a list of batches;
\* the control answers a start reference k with batch k + 1, whose first
\* eight bytes hold the next start reference, and with ERROR_HANDLE_EOF
\* after the last batch.
RECURSIVE SumSize(_)
SumSize(records) ==
    IF records = <<>> THEN 0 ELSE Head(records).size + SumSize(Tail(records))

EnumUsnData(batches, start) ==
    IF start >= Len(batches)
    THEN [eof |-> TRUE, bytesReturned |-> 0, nextUsn |-> start, records |-> <<>>]
    ELSE [eof |-> FALSE,
          bytesReturned |-> sizeofULONGLONG + SumSize(batches[start + 1]),
          nextUsn |-> start + 1,
          records |-> batches[start + 1]]

\* The control calls of one scan the model follows
MaxCalls == 4

\* lines 370-413
SOpenVolume ==
    /\ op = "scan" /\ UNCHANGED notScan /\ pc = "start"
    /\ IF drive_ = <<>>
       THEN Fail("Drive letter is required") /\ UNCHANGED volume
       ELSE \E ok \in BOOLEAN :
               /\ volume' = CreateFileW(volume, VolumePath(ScanPrefixLiteral, drive_), ok)
               /\ IF ok THEN pc' = "enum" /\ UNCHANGED <<result, errorMessage>>
                        ELSE Fail("CreateFile failed")
    /\ UNCHANGED <<op, drive_, scanVars>>

\* lines 426-494: one turn of the enumeration loop, and the close after it
SEnumerate ==
    /\ op = "scan" /\ UNCHANGED notScan /\ pc = "enum"
    /\ Len(issued) < MaxCalls
    /\ issued' = Append(issued, med)
    /\ \/ LET reply == EnumUsnData(journal, med)
              st == [fileTable |-> fileTable, deleted |-> deleted, parsed |-> parsed]
              after == ParseRecords(st, reply.records,
                                    reply.bytesReturned - sizeofULONGLONG)
          IN  IF reply.eof
              THEN /\ volume' = CloseHandle(Use(volume, "DeviceIoControl"))
                   /\ pc' = "item"
                   /\ UNCHANGED <<result, errorMessage, med, fileTable, deleted, parsed>>
              ELSE IF reply.bytesReturned <= sizeofULONGLONG
              THEN /\ volume' = Use(volume, "DeviceIoControl")
                   /\ UNCHANGED <<pc, result, errorMessage, med, fileTable, deleted, parsed>>
              ELSE /\ volume' = Use(volume, "DeviceIoControl")
                   /\ fileTable' = after.fileTable
                   /\ deleted' = after.deleted
                   /\ parsed' = after.parsed
                   /\ med' = reply.nextUsn
                   /\ UNCHANGED <<pc, result, errorMessage>>
       \/ /\ volume' = CloseHandle(Use(volume, "DeviceIoControl"))
          /\ Fail("FSCTL_ENUM_USN_DATA failed")
          /\ UNCHANGED <<med, fileTable, deleted, parsed>>
    /\ UNCHANGED <<op, drive_, journal, results_, scanPath>>

\* lines 499-509, and the end of Execute after the last deleted record
SItem ==
    /\ op = "scan" /\ UNCHANGED notScan /\ pc = "item"
    /\ IF itemIndex > Len(deleted)
       THEN /\ pc' = "done" /\ result' = "ok"
            /\ UNCHANGED <<fullPath, segments, current, guard>>
       ELSE /\ fullPath' = <<ToUpper(drive_[1]), Colon, Backslash>>
            /\ segments' = <<deleted[itemIndex].name>>
            /\ current' = deleted[itemIndex].parentRef
            /\ guard' = 0
            /\ pc' = "walk"
            /\ UNCHANGED result
    /\ UNCHANGED <<op, drive_, volume, errorMessage, journal, scanEnum,
                   results_, itemIndex, joinIndex>>

\* The loops over the ancestors and over the segments are run Stride turns
\* to a step.
Stride == maxDepth \div 256

\* lines 510-523: up to fuel turns of the walk up the parents; over tells
\* that the loop was left.  The mutant walks on whatever the depth.
RECURSIVE WalkTurns_NoGuard(_, _, _, _, _)
WalkTurns_NoGuard(table, cur, g, segs, fuel) ==
    IF ~(cur # 0) \/ cur \notin DOMAIN table
    THEN [current |-> cur, guard |-> g, segments |-> segs, over |-> TRUE]
    ELSE IF fuel = 0
    THEN [current |-> cur, guard |-> g, segments |-> segs, over |-> FALSE]
    ELSE LET it == table[cur]
             pushed == IF it.name # <<>> THEN Append(segs, it.name) ELSE segs
         IN  IF cur = it.parentRef
             THEN [current |-> cur, guard |-> g, segments |-> pushed, over |-> TRUE]
             ELSE WalkTurns_NoGuard(table, it.parentRef, g + 1, pushed, fuel - 1)

RECURSIVE WalkTurns(_, _, _, _, _)
WalkTurns(table, cur, g, segs, fuel) ==
    IF ~(cur # 0 /\ g < maxDepth) \/ cur \notin DOMAIN table
    THEN [current |-> cur, guard |-> g, segments |-> segs, over |-> TRUE]
    ELSE IF fuel = 0
    THEN [current |-> cur, guard |-> g, segments |-> segs, over |-> FALSE]
    ELSE LET it == table[cur]
             pushed == IF it.name # <<>> THEN Append(segs, it.name) ELSE segs
         IN  IF cur = it.parentRef
             THEN [current |-> cur, guard |-> g, segments |-> pushed, over |-> TRUE]
             ELSE WalkTurns(table, it.parentRef, g + 1, pushed, fuel - 1)

\* lines 525-530: up to fuel turns of the loop joining the segments,
\* outermost first
RECURSIVE JoinTurns(_, _, _, _)
JoinTurns(path, segs, index, fuel) ==
    IF index < 1 \/ fuel = 0
    THEN [fullPath |-> path, joinIndex |-> index]
    ELSE JoinTurns((IF path # <<>> /\ path[Len(path)] # Backslash
                    THEN Append(path, Backslash) ELSE path) \o segs[index],
                   segs, index - 1, fuel - 1)

\* lines 510-523
SWalk ==
    /\ op = "scan" /\ UNCHANGED notScan /\ pc = "walk"
    /\ LET w == WalkTurns(fileTable, current, guard, segments, Stride)
       IN  /\ segments' = w.segments
           /\ current' = w.current
           /\ guard' = w.guard
           /\ IF w.over THEN pc' = "join" /\ joinIndex' = Len(w.segments)
                        ELSE UNCHANGED <<pc, joinIndex>>
    /\ UNCHANGED <<op, drive_, volume, result, errorMessage, journal, scanEnum,
                   results_, itemIndex, fullPath>>

\* lines 525-540: the loop joining the segments, and after it the result
SJoin ==
    /\ op = "scan" /\ UNCHANGED notScan /\ pc = "join"
    /\ IF joinIndex >= 1
       THEN LET j == JoinTurns(fullPath, segments, joinIndex, Stride)
            IN  /\ fullPath' = j.fullPath
                /\ joinIndex' = j.joinIndex
                /\ UNCHANGED <<pc, results_, itemIndex>>
       ELSE /\ results_' = Append(results_,
                [fileRef |-> deleted[itemIndex].fileRef,
                 parentRef |-> deleted[itemIndex].parentRef,
                 name |-> deleted[itemIndex].name,
                 fullPath |-> fullPath,
                 isDirectory |-> deleted[itemIndex].isDirectory,
                 reason |-> deleted[itemIndex].reason])
            /\ itemIndex' = itemIndex + 1
            /\ pc' = "item"
            /\ UNCHANGED <<fullPath, joinIndex>>
    /\ UNCHANGED <<op, drive_, volume, result, errorMessage, journal, scanEnum,
                   segments, current, guard>>

---------------------------------------------------------------------------
(* FileRecordWorker::Execute and OnOK *)

\* The literal at line 600: L"\\\\.\\"
RecordPrefixLiteral == <<Backslash, Backslash, Backslash, Backslash, Dot, Backslash, Backslash>>

sizeofNtfsFileRecordOutputBuffer == 13      \* packed: 8 + 4 + 1
sizeofFileRecordHeader == 48                \* packed, lines 40-55
sizeofAttributeRecordHeader == 72           \* packed: 16 + the larger union arm
FILE_MAGIC == 1162627398                    \* 0x454C4946
AttributeEnd == U32 - 1                     \* 0xFFFFFFFF

\* std::to_string of an integer
RECURSIVE Digits(_)
Digits(n) == IF n < 10 THEN <<48 + n>> ELSE Digits(n \div 10) \o <<48 + (n % 10)>>

to_string(n) == IF n < 0 THEN <<45>> \o Digits(-n) ELSE Digits(n)

\* lines 135-169
alphabet ==
    [i \in 0..63 |-> IF i < 26 THEN 65 + i
                     ELSE IF i < 52 THEN 97 + (i - 26)
                     ELSE IF i < 62 THEN 48 + (i - 52)
                     ELSE IF i = 62 THEN 43 ELSE 47]

RECURSIVE Base64Encode(_)
Base64Encode(data) ==
    IF Len(data) = 0 THEN <<>>
    ELSE IF Len(data) >= 3
    THEN LET triple == data[1] * 65536 + data[2] * 256 + data[3]
         IN  <<alphabet[(triple \div 262144) % 64], alphabet[(triple \div 4096) % 64],
               alphabet[(triple \div 64) % 64], alphabet[triple % 64]>>
             \o Base64Encode(SubSeq(data, 4, Len(data)))
    ELSE LET triple == data[1] * 65536 + (IF Len(data) = 2 THEN data[2] * 256 ELSE 0)
         IN  <<alphabet[(triple \div 262144) % 64], alphabet[(triple \div 4096) % 64],
               IF Len(data) = 2 THEN alphabet[(triple \div 64) % 64] ELSE 61,
               61>>

\* lines 180-200
AttributeTypeToString(type) ==
    CASE type = 16  -> "StandardInformation"
      [] type = 32  -> "AttributeList"
      [] type = 48  -> "FileName"
      [] type = 64  -> "ObjectId"
      [] type = 80  -> "SecurityDescriptor"
      [] type = 96  -> "VolumeName"
      [] type = 112 -> "VolumeInformation"
      [] type = 128 -> "Data"
      [] type = 144 -> "IndexRoot"
      [] type = 160 -> "IndexAllocation"
      [] type = 176 -> "Bitmap"
      [] type = 192 -> "ReparsePoint"
      [] type = 208 -> "EAInformation"
      [] type = 224 -> "EA"
      [] type = 240 -> "PropertySet"
      [] type = 256 -> "LoggedUtilityStream"
      [] OTHER -> "Unknown"

\* lines 202-212: the NameLength code units found at NameOffset, as UTF-8
ExtractAttributeName(header) ==
    IF header.NameLength = 0 THEN <<>> ELSE WideToUtf8(header.name)

\* The little-endian value of a sequence of bytes
RECURSIVE LittleEndian(_)
LittleEndian(data) ==
    IF data = <<>> THEN 0 ELSE Head(data) + 256 * LittleEndian(Tail(data))

RECURSIVE BitOr(_, _)
BitOr(a, b) ==
    IF a = 0 THEN b
    ELSE IF b = 0 THEN a
    ELSE (IF a % 2 = 1 \/ b % 2 = 1 THEN 1 ELSE 0) + 2 * BitOr(a \div 2, b \div 2)

\* A long long is held as its 8 bytes, the lowest first.  Its value as an
\* integer, for the values no wider than the integers of the checker:
Int64(bytes) ==
    IF bytes[8] >= 128
    THEN -LittleEndian([i \in 1..8 |-> 255 - bytes[i]]) - 1
    ELSE LittleEndian(bytes)

sizeofLongLong == 8

\* ReadSignedValue without lines 224-226: the mutant
ReadSignedValue64_NoExtend(data, size) ==
    IF size <= 0 \/ size > sizeofLongLong THEN [i \in 1..8 |-> 0]
    ELSE [i \in 1..8 |-> IF i <= size THEN data[i] ELSE 0]

\* lines 214-229, the long long returned as its 8 bytes: data[i] is or-ed in
\* at bit 8 * i (lines 220-222), then, when size < 8 and the top bit of the
\* last byte is set, -1LL << (size * 8) is or-ed in (lines 224-226)
ReadSignedValue64(data, size) ==
    IF size <= 0 \/ size > sizeofLongLong THEN [i \in 1..8 |-> 0]
    ELSE LET value == [i \in 1..8 |-> IF i <= size THEN data[i] ELSE 0]
         IN  IF size < 8 /\ BitAnd(data[size], 128) # 0
             THEN [i \in 1..8 |-> IF i > size THEN BitOr(value[i], 255) ELSE value[i]]
             ELSE value

\* lines 214-229: data holds the size bytes of the field
ReadSignedValue(data, size) == Int64(ReadSignedValue64(data, size))

\* lines 254-257: the bytes of the length field or-ed into a long long, byte
\* i at bit 8 * i.  A shift by 64 or more, for the bytes from the ninth on,
\* is undefined: a build either shifts by the count modulo 64 or leaves 0.
RunLength64(field, shift) ==
    [j \in 1..8 |->
        BitOr(IF j <= Len(field) THEN field[j] ELSE 0,
              IF shift = "masked" /\ j + 8 <= Len(field) THEN field[j + 8] ELSE 0)]

\* lines 244-266: the loop of ParseRunList.  bytes are the bytes of the
\* attribute from base + RunOffset up to base + Length, pos the index of
\* runPtr in them, so that runPtr < end is pos <= Len(bytes).
RECURSIVE ParseRuns_AbsoluteLcn(_, _, _, _, _)     \* mutant: no running sum
ParseRuns_AbsoluteLcn(bytes, pos, currentVCN, currentLCN, runs) ==
    IF ~(pos <= Len(bytes) /\ bytes[pos] # 0) THEN runs
    ELSE LET headerByte == bytes[pos]
             lengthFieldSize == headerByte % 16
             offsetFieldSize == (headerByte \div 16) % 16
             runPtr == pos + 1
         IN  IF lengthFieldSize <= 0
                \/ runPtr + lengthFieldSize + offsetFieldSize > Len(bytes) + 1
             THEN runs
             ELSE LET runLength ==
                          Int64(RunLength64(SubSeq(bytes, runPtr,
                                                   runPtr + lengthFieldSize - 1),
                                            wideShift))
                      sparse == (offsetFieldSize = 0)
                      runOffset ==
                          ReadSignedValue(SubSeq(bytes, runPtr + lengthFieldSize,
                                                 runPtr + lengthFieldSize + offsetFieldSize - 1),
                                          offsetFieldSize)
                 IN  ParseRuns_AbsoluteLcn(bytes, runPtr + lengthFieldSize + offsetFieldSize,
                               currentVCN + runLength, runOffset,
                               Append(runs, [vcnStart |-> currentVCN, lcn |-> runOffset,
                                             length |-> runLength, sparse |-> sparse]))

RECURSIVE ParseRuns(_, _, _, _, _)
ParseRuns(bytes, pos, currentVCN, currentLCN, runs) ==
    IF ~(pos <= Len(bytes) /\ bytes[pos] # 0) THEN runs
    ELSE LET headerByte == bytes[pos]
             lengthFieldSize == headerByte % 16
             offsetFieldSize == (headerByte \div 16) % 16
             runPtr == pos + 1
         IN  IF lengthFieldSize <= 0
                \/ runPtr + lengthFieldSize + offsetFieldSize > Len(bytes) + 1
             THEN runs
             ELSE LET runLength ==
                          Int64(RunLength64(SubSeq(bytes, runPtr,
                                                   runPtr + lengthFieldSize - 1),
                                            wideShift))
                      sparse == (offsetFieldSize = 0)
                      runOffset ==
                          ReadSignedValue(SubSeq(bytes, runPtr + lengthFieldSize,
                                                 runPtr + lengthFieldSize + offsetFieldSize - 1),
                                          offsetFieldSize)
                      lcn == currentLCN + runOffset
                 IN  ParseRuns(bytes, runPtr + lengthFieldSize + offsetFieldSize,
                               currentVCN + runLength, lcn,
                               Append(runs, [vcnStart |-> currentVCN, lcn |-> lcn,
                                             length |-> runLength, sparse |-> sparse]))

\* lines 231-269
ParseRunList(header) ==
    IF header.NonResident = 0 THEN <<>>
    ELSE ParseRuns(header.runBytes, 1, header.LowestVcn, 0, <<>>)

\* The byte of an attribute at an offset from its start
AttributeByte(off) == 1 + ((7 * off) % 255)

\* line 349.  The mutant takes a value that ends exactly at the end of the
\* attribute for one that overruns it.
ValueFits_Strict(valueOffset, valueLength, length) ==
    ToU32(valueOffset + valueLength) < length /\ valueLength > 0
ValueFits(valueOffset, valueLength, length) ==
    ToU32(valueOffset + valueLength) <= length /\ valueLength > 0

\* Where the bytes read lie: the bytes from offset from up to, not including,
\* offset to of the attribute
Extent(what, from, to) == [what |-> what, from |-> from, to |-> to]

sizeofWCHAR == 2

\* lines 207-210: the NameLength code units at NameOffset
NameReads(header) ==
    IF header.NameLength = 0 THEN <<>>
    ELSE <<Extent("name", header.NameOffset,
                  header.NameOffset + sizeofWCHAR * header.NameLength)>>

\* lines 349-352: the ValueLength bytes at ValueOffset, when line 349 lets
\* them be read
ValueReads(attr) ==
    IF ValueFits(attr.ValueOffset, attr.ValueLength, attr.Length)
    THEN <<Extent("value", attr.ValueOffset, attr.ValueOffset + attr.ValueLength)>>
    ELSE <<>>

\* lines 244-261: how many of the bytes from RunOffset on the loop of
\* ParseRunList reads: a header byte when runPtr < end, its fields when they
\* end before end
RECURSIVE RunsRead(_, _)
RunsRead(bytes, pos) ==
    IF ~(pos <= Len(bytes)) THEN pos - 1
    ELSE IF bytes[pos] = 0 THEN pos
    ELSE LET lengthFieldSize == bytes[pos] % 16
             offsetFieldSize == (bytes[pos] \div 16) % 16
         IN  IF lengthFieldSize <= 0
                \/ pos + 1 + lengthFieldSize + offsetFieldSize > Len(bytes) + 1
             THEN pos
             ELSE RunsRead(bytes, pos + 1 + lengthFieldSize + offsetFieldSize)

RunReads(header) ==
    <<Extent("runs", header.RunOffset, header.RunOffset + RunsRead(header.runBytes, 1))>>

\* lines 334-354: the AttributeInfo made of one attribute record; reads are
\* the bytes of the attribute that were read for it
AttributeInfoOf(attr) ==
    LET nonResident == attr.NonResident # 0
    IN  [type |-> attr.Type,
         typeName |-> AttributeTypeToString(attr.Type),
         nonResident |-> nonResident,
         name |-> ExtractAttributeName(attr),
         dataSize |-> IF nonResident THEN attr.DataSize ELSE attr.ValueLength,
         allocatedSize |-> IF nonResident THEN attr.AllocatedSize ELSE attr.ValueLength,
         runs |-> IF nonResident THEN ParseRunList(attr) ELSE <<>>,
         residentData |->
            IF ~nonResident /\ ValueFits(attr.ValueOffset, attr.ValueLength, attr.Length)
            THEN [i \in 1..attr.ValueLength |-> AttributeByte(attr.ValueOffset + i - 1)]
            ELSE <<>>,
         reads |-> NameReads(attr) \o (IF nonResident THEN RunReads(attr)
                                                      ELSE ValueReads(attr))]

\* A value was read that ends 2^32 bytes or more after the start of its
\* attribute, past the end of the buffer of lines 637-638
ReadPastBuffer(attributes) ==
    \E i \in DOMAIN attributes : \E e \in DOMAIN attributes[i].reads :
        attributes[i].reads[e].to >= U32

\* The bytes after the last attribute the volume wrote: the buffer is
\* zero-initialised (line 638)
ZeroAttribute ==
    [Type |-> 0, Length |-> 0, NonResident |-> 0, NameLength |-> 0, NameOffset |-> 0,
     name |-> <<>>, ValueLength |-> 0, ValueOffset |-> 0, LowestVcn |-> 0,
     DataSize |-> 0, AllocatedSize |-> 0, RunOffset |-> 0, runBytes |-> <<>>]

\* lines 326-360: the loop of ParseFileRecord, at the i-th attribute of the
\* record, which lies at offset attrPtr of the buffer
RECURSIVE ParseAttributes(_, _, _, _, _)
ParseAttributes(buffer, length, i, attrPtr, attributes) ==
    IF ~(attrPtr + sizeofAttributeRecordHeader <= length) THEN attributes
    ELSE LET attr == IF i <= Len(buffer.attributes) THEN buffer.attributes[i]
                     ELSE ZeroAttribute
         IN  IF attr.Type = AttributeEnd \/ attr.Length = 0 THEN attributes
             ELSE IF attrPtr + attr.Length > length THEN attributes
             ELSE ParseAttributes(buffer, length, i + 1, attrPtr + attr.Length,
                                  Append(attributes, AttributeInfoOf(attr)))

\* A parser that does not look at the magic: the mutant of ParseFileRecord
ParseFileRecord_NoMagic(buffer, length) ==
    IF length < sizeofFileRecordHeader THEN [ok |-> FALSE]
    ELSE [ok |-> TRUE,
          inUse |-> BitAnd(buffer.Flags, 1) # 0,
          isDirectory |-> BitAnd(buffer.Flags, 2) # 0,
          baseReference |-> buffer.BaseFileRecord,
          hardLinkCount |-> buffer.HardLinkCount,
          flags |-> buffer.Flags,
          attributes |-> ParseAttributes(buffer, length, 1,
                                         buffer.FirstAttributeOffset, <<>>),
          bytesPerSector |-> 0,
          sectorsPerCluster |-> 0,
          clusterSize |-> 0]

\* lines 303-363
ParseFileRecord(buffer, length) ==
    IF length < sizeofFileRecordHeader THEN [ok |-> FALSE]
    ELSE IF buffer.Magic # FILE_MAGIC THEN [ok |-> FALSE]
    ELSE [ok |-> TRUE,
          inUse |-> BitAnd(buffer.Flags, 1) # 0,
          isDirectory |-> BitAnd(buffer.Flags, 2) # 0,
          baseReference |-> buffer.BaseFileRecord,
          hardLinkCount |-> buffer.HardLinkCount,
          flags |-> buffer.Flags,
          attributes |-> ParseAttributes(buffer, length, 1,
                                         buffer.FirstAttributeOffset, <<>>),
          bytesPerSector |-> 0,
          sectorsPerCluster |-> 0,
          clusterSize |-> 0]

\* lines 704-708 and 710-727: the object made of one AttributeInfo
AttrObj(attr) ==
    LET fixed == [type |-> attr.type,
                  typeName |-> attr.typeName,
                  nonResident |-> attr.nonResident,
                  dataSize |-> to_string(attr.dataSize),
                  allocatedSize |-> to_string(attr.allocatedSize)]
        named == IF attr.name # <<>> THEN ("name" :> attr.name) @@ fixed ELSE fixed
        runObj(run) == [vcn |-> to_string(run.vcnStart), lcn |-> to_string(run.lcn),
                        length |-> to_string(run.length), sparse |-> run.sparse]
    IN  IF attr.runs # <<>>
        THEN ("runs" :> [r \in 1..Len(attr.runs) |-> runObj(attr.runs[r])]) @@ named
        ELSE IF attr.residentData # <<>>
        THEN ("residentDataBase64" :> Base64Encode(attr.residentData)) @@ named
        ELSE named

\* lines 593-635
FOpenVolume ==
    /\ op = "record" /\ UNCHANGED notRecord /\ pc = "start"
    /\ IF drive_ = <<>>
       THEN /\ Fail("Drive letter is required")
            /\ UNCHANGED <<volume, sectorsPerCluster, bytesPerSector>>
       ELSE /\ sectorsPerCluster' = geometry.sectorsPerCluster
            /\ bytesPerSector' = geometry.bytesPerSector
            /\ \E ok \in BOOLEAN :
                  /\ volume' = CreateFileW(volume, VolumePath(RecordPrefixLiteral, drive_), ok)
                  /\ IF ok THEN pc' = "fetch" /\ UNCHANGED <<result, errorMessage>>
                           ELSE Fail("CreateFile failed")
    /\ UNCHANGED <<op, drive_, mft, geometry, outBuffer, details_, jsRecord>>

\* lines 637-663
FFetch ==
    /\ op = "record" /\ UNCHANGED notRecord /\ pc = "fetch"
    /\ volume' = CloseHandle(Use(volume, "DeviceIoControl"))
    /\ IF ~mft.ok
       THEN Fail("FSCTL_GET_NTFS_FILE_RECORD failed") /\ UNCHANGED outBuffer
       ELSE /\ outBuffer' = mft
            /\ pc' = "parse"
            /\ UNCHANGED <<result, errorMessage>>
    /\ UNCHANGED <<op, drive_, mft, geometry, sectorsPerCluster, bytesPerSector,
                   details_, jsRecord>>

\* lines 665-680
FParse ==
    /\ op = "record" /\ UNCHANGED notRecord /\ pc = "parse"
    /\ IF outBuffer.bytesReturned < sizeofNtfsFileRecordOutputBuffer
       THEN Fail("File record response too small") /\ UNCHANGED details_
       ELSE LET details == ParseFileRecord(outBuffer.FileRecordBuffer,
                                           outBuffer.FileRecordLength)
            IN  IF ~details.ok
                THEN Fail("Failed to parse file record") /\ UNCHANGED details_
                ELSE \/ /\ details_' = [details EXCEPT
                                        !.bytesPerSector = bytesPerSector,
                                        !.sectorsPerCluster = sectorsPerCluster,
                                        !.clusterSize = ToU64(bytesPerSector * sectorsPerCluster)]
                        /\ pc' = "onok"
                        /\ UNCHANGED <<result, errorMessage>>
                     \* the read past the buffer is undefined: it may also end
                     \* the process, or the allocation for it may throw
                     \/ /\ ReadPastBuffer(details.attributes)
                        /\ pc' = "crashed"
                        /\ UNCHANGED <<result, errorMessage, details_>>
                     \/ /\ ReadPastBuffer(details.attributes)
                        /\ Fail("bad allocation")
                        /\ UNCHANGED details_
    /\ UNCHANGED <<op, drive_, volume, mft, geometry, sectorsPerCluster, bytesPerSector,
                   outBuffer, jsRecord>>

\* lines 683-734
FOnOK ==
    /\ op = "record" /\ UNCHANGED notRecord /\ pc = "onok"
    /\ jsRecord' =
          [inUse |-> details_.inUse,
           isDirectory |-> details_.isDirectory,
           baseReference |-> to_string(details_.baseReference),
           hardLinkCount |-> details_.hardLinkCount,
           flags |-> details_.flags,
           bytesPerSector |-> details_.bytesPerSector,
           sectorsPerCluster |-> details_.sectorsPerCluster,
           clusterSize |-> to_string(details_.clusterSize),
           attributes |-> [i \in 1..Len(details_.attributes) |->
                             AttrObj(details_.attributes[i])]]
    /\ pc' = "done"
    /\ result' = "ok"
    /\ UNCHANGED <<op, drive_, volume, errorMessage, mft, geometry, sectorsPerCluster,
                   bytesPerSector, outBuffer, details_>>

---------------------------------------------------------------------------
(* The calls of recoverDataRuns the model explores *)

MaxRuns == 2

Run(lcn, length, sparse) == [lcn |-> lcn, length |-> length, sparse |-> sparse]

RunSet == {
    Run(2, 3, FALSE),                       \* a short run of clusters
    Run(1, 20, FALSE),                      \* a run longer than the I/O buffer
    Run(4, 2, TRUE),                        \* flagged sparse
    Run(0, 1, FALSE),                       \* lcn 0: sparse for recovery
    Run(5, -1, FALSE),                      \* a negative length
    Run(1, (U64 \div 16) + 1, FALSE) }      \* length * clusterSize wraps around

RunLists == UNION { [1..n -> RunSet] : n \in 0..MaxRuns }

ClusterSizes == {0, 1, 2, U32 \div 16, U64 \div 32, U64 \div 16}
FileSizes == {0, 5, 40, U32 + 3}
Drives == {<<>>, <<100>>}                   \* "" and "d"
OutputPaths == {<<>>, <<111>>}              \* "" and "o"

---------------------------------------------------------------------------
(* The journals the model explores *)

MaxRecords == 3

UsnRecord(fileRef, parentRef, name, attributes, reason) ==
    [RecordLength |-> 64, size |-> 64,
     FileReferenceNumber |-> fileRef, ParentFileReferenceNumber |-> parentRef,
     FileName |-> name, FileNameLength |-> 2 * Len(name),
     FileAttributes |-> attributes, Reason |-> reason]

RecordSet == {
    UsnRecord(1, 1, <<46>>, 16, 256),       \* the root ".", its own parent
    UsnRecord(2, 1, <<97>>, 16, 256),       \* directory "a" under the root
    UsnRecord(2, 0, <<233>>, 16, 8192),     \* the same directory, renamed
    UsnRecord(3, 2, <<102>>, 32, 512),      \* file "f" under it, deleted
    UsnRecord(4, 9, <<103>>, 48, 768),      \* a directory created and deleted,
                                            \*   its parent not in the journal
    UsnRecord(2, 3, <<>>, 16, 256),         \* a nameless entry, under file 3
    [UsnRecord(6, 1, <<104>>, 32, 512) EXCEPT !.RecordLength = 0],
    [UsnRecord(7, 1, <<105>>, 32, 512) EXCEPT !.RecordLength = U32 - 1],
    [UsnRecord(U32, 1, <<106>>, 32, 256) EXCEPT !.RecordLength = 8] }

\* A journal: batches of records, every batch with at least its header.
\* All ways to cut up to MaxRecords records into batches, empty ones too.
RecordLists == UNION { [1..n -> RecordSet] : n \in 0..MaxRecords }

Journals(l) ==
    { <<>>, <<l>> } \cup
    { <<SubSeq(l, 1, k), SubSeq(l, k + 1, Len(l))>> : k \in 0..Len(l) }

---------------------------------------------------------------------------
(* The file records the model explores *)

MaxAttributes == 3

Resident(type, length, name, valueLength, valueOffset) ==
    [Type |-> type, Length |-> length, NonResident |-> 0,
     NameLength |-> Len(name), NameOffset |-> 24, name |-> name,
     ValueLength |-> valueLength, ValueOffset |-> valueOffset, LowestVcn |-> 0,
     DataSize |-> 0, AllocatedSize |-> 0, RunOffset |-> 0, runBytes |-> <<>>]

NonResident(type, length, name, dataSize, runOffset, runBytes) ==
    [Type |-> type, Length |-> length, NonResident |-> 1,
     NameLength |-> Len(name), NameOffset |-> 64, name |-> name,
     ValueLength |-> 0, ValueOffset |-> 0, LowestVcn |-> 0,
     DataSize |-> dataSize, AllocatedSize |-> dataSize, RunOffset |-> runOffset,
     runBytes |-> runBytes]

AttributeSet ==
    { Resident(16, 72, <<>>, 48, 24),           \* a value that ends with the attribute
      Resident(128, 24, <<>>, 0, 24),           \* an empty resident $DATA
      Resident(48, 32, <<>>, 5, 24),            \* a short attribute with a value
      Resident(48, 72, <<>>, 60, 24),           \* a value that overruns the attribute
      NonResident(128, 72, <<115>>, 300, 64,    \* one run of 3 clusters at lcn 10
                  <<17, 3, 10, 0, 0, 0, 0, 0>>),
      NonResident(128, 80, <<>>, 900, 64,       \* a run, a sparse run, a run back
                  <<33, 2, 44, 1, 1, 4, 17, 1, 246, 0, 0, 0, 0, 0, 0, 0>>),
      NonResident(128, 72, <<>>, 0, 64,         \* an empty run list
                  <<0, 0, 0, 0, 0, 0, 0, 0>>),
      Resident(AttributeEnd, 0, <<>>, 0, 0),    \* the end marker
      Resident(16, 0, <<>>, 0, 0),              \* Length = 0
      Resident(16, 200, <<>>, 4, 24),           \* Length past the end of the record
      Resident(48, 24, <<97>>, 0, 24),          \* a name after the end of the attribute
      Resident(16, 72, <<>>, U32 - 16, 24) }    \* ValueOffset + ValueLength = 2^32 + 8

AttributeLists == UNION { [1..n -> AttributeSet] : n \in 0..MaxAttributes }

FileRecord(magic, flags, attributes) ==
    [Magic |-> magic, Flags |-> flags, HardLinkCount |-> 1,
     FirstAttributeOffset |-> 56, BaseFileRecord |-> 0, attributes |-> attributes]

MftReplies(attributes) ==
    { [ok |-> FALSE, bytesReturned |-> 0, FileRecordLength |-> 0,
       FileRecordBuffer |-> FileRecord(0, 0, <<>>)] } \cup
    { [ok |-> TRUE, bytesReturned |-> 12, FileRecordLength |-> 0,
       FileRecordBuffer |-> FileRecord(0, 0, <<>>)] } \cup
    \* the flags vary in the records that are parsed, the only ones whose
    \* flags are read
    { reply \in
        { [ok |-> TRUE, bytesReturned |-> 12 + length, FileRecordLength |-> length,
           FileRecordBuffer |-> FileRecord(magic, flags, attributes)] :
             length \in {40, 160, 248},
             magic \in {FILE_MAGIC, FILE_MAGIC - 1},
             flags \in {1, 2} } :
        \/ reply.FileRecordBuffer.Flags = 1
        \/ /\ reply.FileRecordBuffer.Magic = FILE_MAGIC
           /\ reply.FileRecordLength >= sizeofFileRecordHeader }

Geometries ==
    { [sectorsPerCluster |-> 8, bytesPerSector |-> 512],
      [sectorsPerCluster |-> 0, bytesPerSector |-> 0] }     \* GetDiskFreeSpaceW failed

InitRecord ==
    /\ op = "record" /\ pc = "start"
    /\ drive_ \in Drives
    /\ volume = NoHandle /\ output = NoOutput
    /\ result = "none" /\ errorMessage = ""
    /\ geometry \in Geometries
    \* without a drive letter no volume is asked; what the geometry query
    \* answers has no part in the parsing of the record, and its failure is
    \* explored with the records that hold no attribute
    /\ \E attributes \in (IF drive_ = <<>> \/ geometry.bytesPerSector = 0
                          THEN {<<>>} ELSE AttributeLists) :
          mft \in MftReplies(attributes)
    /\ RecordIdle
    /\ NoRecover
    /\ NoScan
    /\ wideShift = "masked" /\ NoCall

NextRecord == FOpenVolume \/ FFetch \/ FParse \/ FOnOK

SpecRecord == InitRecord /\ [][NextRecord]_vars

InitScan ==
    /\ op = "scan" /\ pc = "start"
    /\ drive_ \in Drives
    /\ volume = NoHandle /\ output = NoOutput
    /\ result = "none" /\ errorMessage = ""
    /\ \E l \in RecordLists : journal \in Journals(l)
    /\ ScanIdle
    /\ NoRecover
    /\ NoRecord
    /\ wideShift = "masked" /\ NoCall

NextScan == SOpenVolume \/ SEnumerate \/ SItem \/ SWalk \/ SJoin

SpecScan == InitScan /\ [][NextScan]_vars

\* The scans of a journal that comes in one batch of well-formed records:
\* the file tables the walk up the parents is run on, the ones with a cycle
\* of parents included.  Execute runs on one worker thread from its first
\* statement to its return, so a turn of its loops that can be taken is
\* taken.
WalkJournals ==
    { <<l>> : l \in { r \in RecordLists :
                        \A i \in DOMAIN r : r[i].RecordLength = r[i].size } }

InitWalk == InitScan /\ journal \in WalkJournals

SpecWalk == InitWalk /\ [][NextScan]_vars /\ WF_vars(SWalk \/ SJoin)

InitRecover ==
    /\ op = "recover" /\ pc = "args"
    /\ drive_ \in Drives
    /\ volume = NoHandle /\ output = NoOutput
    /\ result = "none" /\ errorMessage = ""
    /\ runs_ \in RunLists
    /\ clusterSize_ \in ClusterSizes
    /\ fileSize_ \in FileSizes
    /\ outputPath_ \in OutputPaths
    /\ RecoverIdle
    /\ NoScan
    /\ NoRecord
    /\ wideShift = "masked" /\ NoCall

NextRecover ==
    \/ RCheckArgs \/ ROpenVolume \/ ROpenOutput \/ RAllocBuffers
    \/ RNextRun \/ RSparseWrite \/ RSeek \/ RCopyChunk \/ RPad \/ RClose

SpecRecover == InitRecover /\ [][NextRecover]_vars

\* The three operations the module exports (lines 1164-1166)
---------------------------------------------------------------------------
(* ReadSignedValue and ParseRunList called on their own *)

\* lines 214-229
CallReadSignedValue ==
    /\ op = "ReadSignedValue" /\ pc = "start"
    /\ returned' = <<ReadSignedValue64(callArgs.data, callArgs.size)>>
    /\ pc' = "done"
    /\ UNCHANGED <<op, result, callArgs>>
    /\ UNCHANGED notCall

\* lines 231-269
CallParseRunList ==
    /\ op = "ParseRunList" /\ pc = "start"
    /\ returned' = <<ParseRunList(callArgs)>>
    /\ pc' = "done"
    /\ UNCHANGED <<op, result, callArgs>>
    /\ UNCHANGED notCall

\* The fields the model explores take their bytes from these
SomeBytes == {0, 127, 128, 255}

\* The fields of size bytes: every one for the sizes a long long has, one
\* for a size past them
Fields(size) ==
    [1..size -> IF size <= sizeofLongLong THEN SomeBytes ELSE {255}]

\* The size bytes of n, lowest first, in two's complement
RECURSIVE ToBytes(_, _)
ToBytes(n, size) ==
    IF size = 0 THEN <<>> ELSE <<n % 256>> \o ToBytes(n \div 256, size - 1)

\* A run of length clusters at delta clusters from the run before it, the
\* length written in lsize bytes and the delta in osize bytes; osize = 0
\* makes it a sparse run
Pair(length, lsize, delta, osize) ==
    [length |-> length, lsize |-> lsize, delta |-> delta, osize |-> osize]

RunBytes(pair) ==
    <<pair.lsize + 16 * pair.osize>> \o ToBytes(pair.length, pair.lsize)
                                     \o ToBytes(pair.delta, pair.osize)

RECURSIVE Encode(_)
Encode(pairs) ==
    IF pairs = <<>> THEN <<>> ELSE RunBytes(Head(pairs)) \o Encode(Tail(pairs))

MaxPairs == 2

PairSet ==
    { Pair(3, 1, 10, 1),
      Pair(300, 2, -10, 1),         \* a run back
      Pair(2, 1, 0, 0),             \* a sparse run
      Pair(1, 8, -32768, 2),        \* the length in all 8 bytes
      Pair(5, 1, 1000, 8),          \* the delta in all 8 bytes
      Pair(4, 3, -1, 8),
      Pair(0, 1, 7, 1) }            \* no cluster at all

PairLists == UNION { [1..n -> PairSet] : n \in 0..MaxPairs }

\* What follows the last run: the end of the attribute, the terminator, or
\* the terminator and bytes after it
Tails == { <<>>, <<0>>, <<0, 17>> }

\* Run lists no pair encodes
RawRunLists ==
    { <<16, 5>>,                                    \* a length field of 0 bytes
      <<17, 3>>,                                    \* the delta past the end
      <<17, 3, 10, 33, 2>>,                         \* the second run past the end
      <<8, 255, 255, 255, 255, 255, 255, 255, 255>>,    \* a length of 8 bytes, all set
      <<9, 0, 0, 0, 0, 0, 0, 0, 0, 6>>,             \* a length of 9 bytes
      <<25, 2, 0, 0, 0, 0, 0, 0, 0, 6, 10>>,
      <<145, 3, 1, 1, 1, 1, 1, 1, 1, 1, 1>> }       \* a delta of 9 bytes

RunHeaders ==
    { [NonResident(128, 64 + Len(bytes), <<>>, 0, 64, bytes)
          EXCEPT !.LowestVcn = vcn, !.NonResident = nonResident] :
        bytes \in { Encode(pairs) \o tail : pairs \in PairLists, tail \in Tails }
                    \cup RawRunLists,
        vcn \in {0, 5},
        nonResident \in {0, 1} }

InitCall ==
    /\ pc = "start"
    /\ \/ /\ op = "ReadSignedValue"
          /\ \E size \in 0..(sizeofLongLong + 1) : \E data \in Fields(size) :
                callArgs = [data |-> data, size |-> size]
          /\ wideShift = "masked"
       \/ /\ op = "ParseRunList"
          /\ callArgs \in RunHeaders
          /\ wideShift \in {"masked", "zero"}
    /\ returned = <<>>
    /\ drive_ = <<>>
    /\ volume = NoHandle /\ output = NoOutput
    /\ result = "none" /\ errorMessage = ""
    /\ NoRecover
    /\ NoScan
    /\ NoRecord

NextCall == CallReadSignedValue \/ CallParseRunList

SpecCall == InitCall /\ [][NextCall]_vars

InitAll == InitRecover \/ InitScan \/ InitRecord

NextAll == NextRecover \/ NextScan \/ NextRecord

SpecAll == InitAll /\ [][NextAll]_vars

---------------------------------------------------------------------------
(* recoverDataRuns: what is claimed of it *)

Recovering == op = "recover"
Succeeded == pc = "done" /\ result = "ok"

\* The clusters the runs map, in bytes, as a number (no wrap-around)
RECURSIVE MappedBytes(_, _)
MappedBytes(runs, clusterSize) ==
    IF runs = <<>> THEN 0
    ELSE (IF Head(runs).length > 0 THEN Head(runs).length * clusterSize ELSE 0)
         + MappedBytes(Tail(runs), clusterSize)

\* C1: a recoverDataRuns call never has more than fileSize bytes in the
\* output file it created, and one that ends in success has exactly fileSize
\* bytes in it, whether the runs map fewer bytes than fileSize or more.
C1_ExactFileSize ==
    (Recovering /\ "CreateFileW" \in output.calls /\ output.handle # "none") =>
        /\ Len(output.file) <= fileSize_
        /\ Succeeded => Len(output.file) = fileSize_

\* C1 witnesses: a success that had to pad, and one that had to truncate
C1_Witness ==
    /\ Recovering /\ Succeeded
    /\ runs_ # <<>>
    /\ MappedBytes(runs_, clusterSize_) > fileSize_
    /\ Len(output.file) = fileSize_

\* The output the runs describe: per run of length > 0, in order,
\* min(length * clusterSize, left) bytes, the volume's bytes from
\* lcn * clusterSize or zeros for a sparse run; then zeros up to fileSize.
RECURSIVE ExpectedOutput(_, _, _)
ExpectedOutput(runs, clusterSize, left) ==
    IF runs = <<>> THEN Zeros(left)
    ELSE LET run == Head(runs)
             toCopy == Min(run.length * clusterSize, left)
         IN  IF run.length <= 0
             THEN ExpectedOutput(Tail(runs), clusterSize, left)
             ELSE (IF run.sparse \/ run.lcn <= 0
                   THEN Zeros(toCopy)
                   ELSE VolumeData(run.lcn * clusterSize, toCopy))
                  \o ExpectedOutput(Tail(runs), clusterSize, left - toCopy)

\* C2: after a successful recoverDataRuns the output file is, run after
\* run, min(length * clusterSize, remaining) bytes per run of length > 0
\* (the volume's bytes from offset lcn * clusterSize, or zeros for a sparse
\* run), runs of length <= 0 contributing nothing.
C2_RunOrderContent ==
    (Recovering /\ Succeeded) =>
        output.file = ExpectedOutput(runs_, clusterSize_, fileSize_)

\* No product of the call wraps around: length * clusterSize fits a
\* ULONGLONG and lcn * clusterSize a LONGLONG, for every run.
NoProductWraps ==
    \A i \in 1..Len(runs_) :
        /\ runs_[i].length * clusterSize_ < U64
        /\ runs_[i].lcn * clusterSize_ <= I64Max

\* C2 holds of the calls in which no product wraps around.
C2_WhenNoProductWraps == NoProductWraps => C2_RunOrderContent

\* C4, first half: a turn of the sparse loop leaves the volume handle where
\* it was: no seek, no read (the error branch closes it, nothing more).
SparseTurnLeavesVolume ==
    (Recovering /\ pc = "sparse") =>
        /\ volume'.pointer = volume.pointer
        /\ volume'.last \in {volume.last, "CloseHandle"}

\* C4, second half: while every run of the list is sparse (flagged, or with
\* lcn <= 0) the volume handle has seen neither SetFilePointerEx nor ReadFile.
AllRunsSparse == \A i \in 1..Len(runs_) : runs_[i].sparse \/ runs_[i].lcn <= 0

OnlySparseNeverReads ==
    (Recovering /\ AllRunsSparse) =>
        volume.calls \cap {"SetFilePointerEx", "ReadFile"} = {}

\* C4: processing a sparse run performs no seek and no read on the volume,
\* so a run list made only of sparse runs is recovered without a volume read.
C4_SparseNoVolumeRead ==
    /\ []OnlySparseNeverReads
    /\ [][SparseTurnLeavesVolume]_vars

\* C4 witness: a successful recovery of a list of sparse runs, one of them
\* sparse by its lcn alone, that wrote zeros for them
C4_Witness ==
    /\ Recovering /\ Succeeded
    /\ AllRunsSparse
    /\ \E i \in 1..Len(runs_) : ~runs_[i].sparse /\ runs_[i].length > 0
    /\ output.file = Zeros(fileSize_)
    /\ volume.calls = {"CreateFileW", "CloseHandle"}

\* C5: with an empty drive, clusterSize = 0, fileSize = 0 or an empty
\* outputPath, recoverDataRuns ends with an error and without any I/O: no
\* call on the volume, none on the output, the output file as it was.
BadArguments ==
    drive_ = <<>> \/ clusterSize_ = 0 \/ fileSize_ = 0 \/ outputPath_ = <<>>

C5_BadArgumentsNoIo ==
    (Recovering /\ BadArguments) =>
        /\ volume.calls = {} /\ output.calls = {}
        /\ output.file = OldContent
        /\ pc \in {"args", "done"}
        /\ pc = "done" => result = "error"

\* C5 witness: the call ended on fileSize = 0, everything else being given
C5_Witness ==
    /\ Recovering /\ pc = "done" /\ result = "error"
    /\ fileSize_ = 0 /\ drive_ # <<>> /\ clusterSize_ # 0 /\ outputPath_ # <<>>
    /\ errorMessage = "Target file size is zero"
    /\ output.file = OldContent

\* The loop a recovery is in, with bytes it still has to transfer there:
\* the rest of the run in the sparse and the copy loop, the rest of the file
\* in the padding loop.
InTransferLoop ==
    /\ Recovering
    /\ \/ pc \in {"sparse", "copy"} /\ processed < bytesToCopy
       \/ pc = "pad" /\ remaining > 0

BytesLeft ==
    IF pc = "pad" THEN remaining ELSE bytesToCopy - processed

\* The length the next WriteFile or ReadFile call of the loop is given
Requested == ToU32(Min(BytesLeft, bufferSize))

\* C21: for every clusterSize > 0, fileSize > 0 and run list, if every
\* seek, read and write call returns, recoverDataRuns ends in success or
\* error: every turn of the sparse, the copy and the padding loop asks for a
\* chunk of at least one byte, also when 16 x clusterSize does not fit the
\* buffer size or the chunk does not fit the 32-bit length of the call.
C21_EachTurnTransfers ==
    (InTransferLoop /\ clusterSize_ > 0 /\ fileSize_ > 0) => Requested >= 1

\* What a turn asking for no byte does: a read ends the call with an error,
\* a write that returns success leaves the loop where it was, with as many
\* bytes to transfer as before, so that the same turn follows, without end
\* unless a call fails.
ZeroRequestRepeatsTurn ==
    [][(InTransferLoop /\ Requested = 0) =>
          \/ result' = "error"
          \/ /\ pc \in {"sparse", "pad"}
             /\ pc' = pc /\ remaining' = remaining /\ processed' = processed
             /\ bytesToCopy' = bytesToCopy /\ bufferSize' = bufferSize
             /\ runIndex' = runIndex]_vars

\* Such a turn has been taken: WriteFile returned success for no byte, and
\* the loop stands where it stood, in the padding loop or in a sparse run.
SpinningInPadding ==
    /\ InTransferLoop /\ pc = "pad" /\ Requested = 0
    /\ output.last = "WriteFile" /\ output.file = <<>>
    /\ remaining = fileSize_

SpinningInSparseRun ==
    /\ InTransferLoop /\ pc = "sparse" /\ Requested = 0
    /\ output.last = "WriteFile" /\ processed = 0

\* What every other turn does: it ends the call with an error or leaves
\* fewer bytes to transfer in the same loop.
RequestOfOneByteTransfers ==
    [][(InTransferLoop /\ Requested >= 1) =>
          \/ result' = "error"
          \/ pc' = pc /\ BytesLeft' < BytesLeft]_vars

---------------------------------------------------------------------------
(* scan: what is claimed of it *)

Scanning == op = "scan"

ReasonHasFileDelete(record) == (record.Reason \div 512) % 2 = 1
AttributesHaveDirectory(record) == (record.FileAttributes \div 16) % 2 = 1

\* C6: a successful scan returns one result per parsed USN record whose
\* Reason contains FILE_DELETE, in journal order, with that record's fileRef,
\* parentRef, name, isDirectory and reason; every parsed record, deleted or
\* not, has its entry in the file table.
C6_OneResultPerDelete ==
    (Scanning /\ Succeeded) =>
        LET del == SelectSeq(parsed, ReasonHasFileDelete)
        IN  /\ Len(results_) = Len(del)
            /\ \A i \in 1..Len(del) :
                 /\ results_[i].fileRef = del[i].FileReferenceNumber
                 /\ results_[i].parentRef = del[i].ParentFileReferenceNumber
                 /\ results_[i].name = WideToUtf8(del[i].FileName)
                 /\ results_[i].isDirectory = AttributesHaveDirectory(del[i])
                 /\ results_[i].reason = del[i].Reason
            /\ \A j \in 1..Len(parsed) :
                 parsed[j].FileReferenceNumber \in DOMAIN fileTable

\* C6 witness: three records parsed, two of them deletions, the first a
\* deletion among other reason bits
C6_Witness ==
    /\ Scanning /\ Succeeded
    /\ Len(parsed) = 3 /\ Len(results_) = 2
    /\ results_[1].reason = 768 /\ results_[1].isDirectory
    /\ results_[2].reason = 512 /\ results_[2].fileRef = 3

\* The names of the ancestors of an entry whose parent is frn, outermost
\* first: the chain of parents in the table, up to a parent 0, a parent the
\* table does not hold, or an entry that is its own parent (included).
RECURSIVE AncestorNames(_, _, _)
AncestorNames(table, frn, fuel) ==
    IF frn = 0 \/ frn \notin DOMAIN table \/ fuel = 0 THEN <<>>
    ELSE LET above == IF table[frn].parentRef = frn THEN <<>>
                      ELSE AncestorNames(table, table[frn].parentRef, fuel - 1)
         IN  above \o (IF table[frn].name # <<>> THEN <<table[frn].name>> ELSE <<>>)

\* The chain of parents from frn ends within fuel steps
RECURSIVE ChainEnds(_, _, _)
ChainEnds(table, frn, fuel) ==
    \/ frn = 0 \/ frn \notin DOMAIN table
    \/ fuel > 0 /\ (table[frn].parentRef = frn
                    \/ ChainEnds(table, table[frn].parentRef, fuel - 1))

RECURSIVE JoinNames(_)
JoinNames(names) ==
    IF Len(names) = 1 THEN names[1]
    ELSE names[1] \o <<92>> \o JoinNames(Tail(names))

UpperCaseLetter(c) == IF c \in 97..122 THEN c - 32 ELSE c

ExpectedPath(table, item, drive) ==
    <<UpperCaseLetter(drive[1]), 58, 92>>
    \o JoinNames(AncestorNames(table, item.parentRef, Cardinality(DOMAIN table))
                 \o <<item.name>>)

\* The entry the last parsed record of a file reference gives
LastRecordOf(frn) ==
    LET j == CHOOSE j \in 1..Len(parsed) :
                 /\ parsed[j].FileReferenceNumber = frn
                 /\ \A k \in (j + 1)..Len(parsed) : parsed[k].FileReferenceNumber # frn
    IN  parsed[j]

\* C7: after a successful scan the file table holds, per file reference, the
\* entry of the last record parsed for it, and the path of every deleted
\* entry whose chain of parents ends is the upper-case drive letter, ":\",
\* the non-empty names of its ancestors in that table from the outermost to
\* the innermost, and its own name, joined by "\".
C7_PathFromFinalTable ==
    (Scanning /\ Succeeded) =>
        /\ \A frn \in DOMAIN fileTable :
             /\ fileTable[frn].parentRef = LastRecordOf(frn).ParentFileReferenceNumber
             /\ fileTable[frn].name = WideToUtf8(LastRecordOf(frn).FileName)
        /\ \A i \in 1..Len(results_) :
             ChainEnds(fileTable, results_[i].parentRef, Cardinality(DOMAIN fileTable)) =>
                 results_[i].fullPath = ExpectedPath(fileTable, results_[i], drive_)

\* C7 witness: "f" was deleted under directory 2, which the journal names
\* "a" under the root and later names anew with no parent: D:\<new name>\f
C7_Witness ==
    /\ Scanning /\ Succeeded
    /\ Len(parsed) = 3 /\ Len(results_) = 1
    /\ parsed[1].FileName = <<97>> /\ parsed[2].FileName = <<233>>
    /\ results_[1].fullPath = <<68, 58, 92, 195, 169, 92, 102>>

\* The loop over the ancestors is left at reference 0, at a reference the
\* table does not hold, at an entry that is its own parent, or at the depth
\* cap
WalkLeftFor ==
    (pc = "walk" /\ pc' = "join") =>
        \/ current' = 0
        \/ current' \notin DOMAIN fileTable
        \/ fileTable[current'].parentRef = current'
        \/ guard' = 1024

\* C16: for every file table, one with a cycle of parents included, the walk
\* that rebuilds the path of a deleted entry ends: it is left at reference
\* 0, at an entry that is its own parent, at a missing entry or after at most
\* 1024 steps up, and it yields a path, never an error.
C16_WalkTerminates ==
    /\ [](Scanning => guard <= 1024 /\ Len(segments) <= 1025)
    /\ [](Scanning /\ pc \in {"walk", "join"} => result = "none")
    /\ [][Scanning => WalkLeftFor]_vars
    /\ [](Scanning /\ pc = "item" => Len(results_) = itemIndex - 1)
    /\ (Scanning /\ pc = "walk") ~> (pc = "item" /\ result = "none")

\* C16 witness: a scan that succeeded after a walk around a cycle of two
\* entries was cut at the depth cap
C16_Witness ==
    /\ Scanning /\ Succeeded
    /\ guard = 1024
    /\ current \in DOMAIN fileTable
    /\ fileTable[current].parentRef # current
    /\ fileTable[fileTable[current].parentRef].parentRef = current
    /\ Len(results_) >= 1

\* The answer the volume gave to the i-th control call of the scan
AnswerTo(i) == EnumUsnData(journal, issued[i])

EmptyBatch(reply) == ~reply.eof /\ reply.bytesReturned <= 8

\* C14: when a control call of a scan succeeds with bytesReturned <= 8, the
\* next control call is issued with the start reference advanced to that
\* batch's next start reference.
C14_EmptyBatchAdvances ==
    Scanning =>
        \A i \in 1..(Len(issued) - 1) :
            EmptyBatch(AnswerTo(i)) => issued[i + 1] = AnswerTo(i).nextUsn

\* After a batch that holds records the start reference is advanced.
FullBatchAdvances ==
    Scanning =>
        \A i \in 1..(Len(issued) - 1) :
            ~EmptyBatch(AnswerTo(i)) => issued[i + 1] = AnswerTo(i).nextUsn

\* A record at which the parsing of a batch stops: RecordLength = 0 or
\* greater than the bytes left in the batch
BadLength(record, left) == record.RecordLength = 0 \/ record.RecordLength > left

\* The records of a batch that precede the first record of a bad length
RECURSIVE BeforeFirstBad(_, _)
BeforeFirstBad(records, left) ==
    IF records = <<>> \/ BadLength(Head(records), left) THEN <<>>
    ELSE <<Head(records)>> \o BeforeFirstBad(Tail(records), left - Head(records).size)

RECURSIVE BeforeFirstBadOfAll(_)
BeforeFirstBadOfAll(batches) ==
    IF batches = <<>> THEN <<>>
    ELSE BeforeFirstBad(Head(batches), SumSize(Head(batches)))
         \o BeforeFirstBadOfAll(Tail(batches))

\* Every batch of the journal holds a record, and the records that precede
\* the first bad one are as long as their RecordLength says
Framed ==
    \A b \in 1..Len(journal) :
        /\ journal[b] # <<>>
        /\ LET good == BeforeFirstBad(journal[b], SumSize(journal[b]))
           IN  \A i \in 1..Len(good) : good[i].RecordLength = good[i].size

HasBadRecord(batch) == Len(BeforeFirstBad(batch, SumSize(batch))) < Len(batch)

\* C15: when a record of a batch has RecordLength = 0 or RecordLength
\* greater than the bytes left in the batch, the parsing of the batch stops
\* there: the records before it are in the file table and, when deleted, in
\* the results, no record after it is parsed, the scan does not fail for it,
\* and the next control call uses the batch's next start reference.
C15_BadLengthStopsBatch ==
    (Scanning /\ Framed) =>
        /\ \A i \in 1..(Len(issued) - 1) : issued[i + 1] = AnswerTo(i).nextUsn
        /\ Len(parsed) <= Len(BeforeFirstBadOfAll(journal))
        /\ \A j \in 1..Len(parsed) :
              /\ parsed[j].FileReferenceNumber
                    = BeforeFirstBadOfAll(journal)[j].FileReferenceNumber
              /\ parsed[j].FileName = BeforeFirstBadOfAll(journal)[j].FileName
              /\ parsed[j].FileReferenceNumber \in DOMAIN fileTable
        /\ Len(deleted) = Len(SelectSeq(parsed, ReasonHasFileDelete))
        /\ pc = "done" =>
              errorMessage \in {"", "Drive letter is required", "CreateFile failed",
                                "FSCTL_ENUM_USN_DATA failed"}
        /\ Succeeded =>
              /\ Len(parsed) = Len(BeforeFirstBadOfAll(journal))
              /\ Len(results_) = Len(deleted)

\* C15 witness: a scan that succeeded on a journal whose batch holds a
\* deleted file, then a record of a bad length, then one more record; the
\* call after that batch asked for what follows it
C15_Witness ==
    /\ Scanning /\ Succeeded /\ Framed
    /\ Len(journal) = 1 /\ Len(journal[1]) = 3
    /\ BadLength(journal[1][2], 128)
    /\ ~BadLength(journal[1][3], 64)
    /\ Len(parsed) = 1 /\ Len(results_) = 1
    /\ parsed[1].FileReferenceNumber = journal[1][1].FileReferenceNumber
    /\ journal[1][3].FileReferenceNumber \notin DOMAIN fileTable
    /\ issued = <<0, 1>>

\* C20: every byte the scan reads for a record, its fixed fields and the
\* FileNameLength bytes of its name, lies within the record's RecordLength
\* and within the bytes of the batch after its header, and a record is
\* accepted only when RecordLength >= sizeof(USN_RECORD_V2).
C20_RecordReadsBounded ==
    Scanning =>
        \A j \in 1..Len(parsed) :
            /\ parsed[j].RecordLength >= 64
            /\ 60 + parsed[j].FileNameLength <= parsed[j].RecordLength
            /\ parsed[j].RecordLength <= parsed[j].recordBytes
            /\ 60 + parsed[j].FileNameLength <= parsed[j].recordBytes

\* What the loop does guard: the fixed part of a record and its
\* RecordLength lie within the bytes left in the batch.
FixedPartWithinBatch ==
    Scanning =>
        \A j \in 1..Len(parsed) :
            /\ 64 <= parsed[j].recordBytes
            /\ parsed[j].RecordLength <= parsed[j].recordBytes

---------------------------------------------------------------------------
(* getFileRecord: what is claimed of it *)

Fetching == op = "record"

\* The volume was opened and answered the request for the file record
RecordFetched == Fetching /\ pc = "done" /\ outBuffer = mft

\* C12: when the fetched record does not start with the magic 'FILE'
\* (0x454C4946), or is shorter than the file-record header, getFileRecord
\* ends with an error, the parse error once the answer holds the 13 bytes of
\* its own header, and no record is delivered, whatever the flags and the
\* attributes in the buffer.
C12_BadRecordIsParseError ==
    RecordFetched /\ (mft.FileRecordBuffer.Magic # 1162627398 \/ mft.FileRecordLength < 48)
        => /\ result = "error"
           /\ jsRecord = NoJsRecord /\ details_ = NoDetails
           /\ errorMessage = IF mft.bytesReturned < 13
                             THEN "File record response too small"
                             ELSE "Failed to parse file record"

\* C12 witness: a record of 248 bytes with three attributes and a wrong magic
\* was fetched and refused
C12_Witness ==
    /\ RecordFetched
    /\ mft.FileRecordBuffer.Magic # 1162627398
    /\ mft.FileRecordLength = 248
    /\ Len(mft.FileRecordBuffer.attributes) = 3
    /\ mft.FileRecordBuffer.attributes[1].Type = 16
    /\ errorMessage = "Failed to parse file record"

\* The product of the two geometry fields is the cluster size of every record
\* returned
ClusterSizeIsProduct ==
    Fetching /\ Succeeded =>
        /\ details_.clusterSize = details_.bytesPerSector * details_.sectorsPerCluster
        /\ jsRecord.clusterSize = to_string(details_.clusterSize)
        /\ jsRecord.bytesPerSector = details_.bytesPerSector
        /\ jsRecord.sectorsPerCluster = details_.sectorsPerCluster

\* C13: every record a successful getFileRecord returns carries a clusterSize
\* equal to bytesPerSector * sectorsPerCluster that is a positive multiple of
\* 512, whatever the outcome of the geometry query before the volume is
\* opened.
C13_ClusterSizePositive ==
    Fetching /\ Succeeded =>
        /\ details_.clusterSize = details_.bytesPerSector * details_.sectorsPerCluster
        /\ details_.clusterSize > 0
        /\ details_.clusterSize % 512 = 0

\* The attribute records of the file record the volume answered with
RawAttributes == mft.FileRecordBuffer.attributes

\* The attributes that precede the first one at which Type = 0xFFFFFFFF,
\* Length = 0, or ptr + Length lies past the end of the record
RECURSIVE BeforeFirstStop(_, _, _)
BeforeFirstStop(attrs, ptr, length) ==
    IF attrs = <<>> THEN <<>>
    ELSE LET a == Head(attrs)
         IN  IF a.Type = U32 - 1 \/ a.Length = 0 \/ ptr + a.Length > length
             THEN <<>>
             ELSE <<a>> \o BeforeFirstStop(Tail(attrs), ptr + a.Length, length)

ValidRecordFetched ==
    /\ Fetching /\ pc = "done"
    /\ volume.handle = "closed"
    /\ mft.ok /\ mft.bytesReturned >= 13
    /\ mft.FileRecordLength >= 48
    /\ mft.FileRecordBuffer.Magic = 1162627398

\* C9: for a record with valid FILE magic getFileRecord succeeds, and it
\* returns, in record order, exactly the attributes that precede the first
\* attribute at which a stop condition holds (Type = 0xFFFFFFFF, Length = 0,
\* or ptr + Length past the end of the record buffer).
C9_AllAttributesBeforeStop ==
    ValidRecordFetched =>
        /\ result = "ok"
        /\ LET expected == BeforeFirstStop(RawAttributes,
                                           mft.FileRecordBuffer.FirstAttributeOffset,
                                           mft.FileRecordLength)
           IN  /\ Len(jsRecord.attributes) = Len(expected)
               /\ \A i \in 1..Len(expected) :
                     /\ jsRecord.attributes[i].type = expected[i].Type
                     /\ jsRecord.attributes[i].nonResident = (expected[i].NonResident # 0)

\* What holds of the walk as the code has it: the attributes returned are
\* those before the first stop condition, where fewer than 72 bytes left in
\* the record is a stop condition too, and no value was read past the buffer.
RECURSIVE BeforeFirstStopOrShortTail(_, _, _)
BeforeFirstStopOrShortTail(attrs, ptr, length) ==
    IF attrs = <<>> THEN <<>>
    ELSE LET a == Head(attrs)
         IN  IF ptr + 72 > length
                \/ a.Type = U32 - 1 \/ a.Length = 0 \/ ptr + a.Length > length
             THEN <<>>
             ELSE <<a>> \o BeforeFirstStopOrShortTail(Tail(attrs), ptr + a.Length, length)

WalkStopsAtShortTail ==
    ValidRecordFetched /\ errorMessage # "bad allocation" =>
        /\ result = "ok"
        /\ LET expected == BeforeFirstStopOrShortTail(RawAttributes,
                                           mft.FileRecordBuffer.FirstAttributeOffset,
                                           mft.FileRecordLength)
           IN  /\ Len(jsRecord.attributes) = Len(expected)
               /\ \A i \in 1..Len(expected) :
                     jsRecord.attributes[i].type = expected[i].Type

HasRuns(obj) == "runs" \in DOMAIN obj
HasResidentData(obj) == "residentDataBase64" \in DOMAIN obj

\* The run list of an attribute record starts with a well-formed run
StartsWithRun(raw) ==
    LET b == raw.runBytes
    IN  /\ Len(b) >= 1
        /\ b[1] # 0
        /\ b[1] % 16 >= 1
        /\ 1 + (b[1] % 16) + (b[1] \div 16) <= Len(b)

\* The declared value of a resident attribute record lies within it
ValueWithin(raw) ==
    /\ raw.ValueLength > 0
    /\ (raw.ValueOffset + raw.ValueLength) % U32 <= raw.Length

RunListReadsInside ==
    Fetching =>
        \A i \in DOMAIN details_.attributes :
            \A e \in DOMAIN details_.attributes[i].reads :
                LET read == details_.attributes[i].reads[e]
                IN  read.what = "runs" /\ read.from < read.to
                        => read.to <= RawAttributes[i].Length

\* C19: while one attribute of a record is parsed, every byte read for its
\* name (NameOffset, NameLength), its resident value (ValueOffset,
\* ValueLength) and its run list (RunOffset) lies inside [attribute start,
\* attribute start + Length), for every value of those fields, the ones for
\* which the 32-bit sum ValueOffset + ValueLength wraps included.
C19_ReadsInsideAttribute ==
    Fetching =>
        \A i \in DOMAIN details_.attributes :
            \A e \in DOMAIN details_.attributes[i].reads :
                LET read == details_.attributes[i].reads[e]
                IN  read.from < read.to
                        => 0 <= read.from /\ read.to <= RawAttributes[i].Length

---------------------------------------------------------------------------
(* The three operations: what is claimed of all of them *)

---------------------------------------------------------------------------
(* ReadSignedValue and ParseRunList *)

SignedValueReturned == op = "ReadSignedValue" /\ pc = "done"

\* bytes, a number of 8 bytes, plus 256 ^ (k - 1), modulo 2 ^ 64
RECURSIVE AddAtByte(_, _)
AddAtByte(bytes, k) ==
    IF k > 8 THEN bytes
    ELSE IF bytes[k] = 255 THEN AddAtByte([bytes EXCEPT ![k] = 0], k + 1)
    ELSE [bytes EXCEPT ![k] = bytes[k] + 1]

ZeroExtended(data) == [i \in 1..8 |-> IF i <= Len(data) THEN data[i] ELSE 0]

\* C18: for every width N in 1..8 and every N bytes ReadSignedValue returns
\* the N-byte little-endian two's-complement value sign-extended to 64
\* bits: with the top bit of the last byte set the result r is negative and
\* r + 256^N is the unsigned value of the bytes, with it clear r is the
\* unsigned value; FF FF gives -1, 00 80 gives -32768 and 7F gives 127.
C18_SignExtended ==
    SignedValueReturned /\ callArgs.size \in 1..8 =>
        LET data == callArgs.data
            N == callArgs.size
            r == returned[1]
        IN  /\ (r[8] >= 128) <=> (data[N] >= 128)
            /\ IF data[N] >= 128
               THEN AddAtByte(r, N + 1) = ZeroExtended(data)
               ELSE r = ZeroExtended(data)
            /\ data = <<255, 255>> => Int64(r) = -1
            /\ data = <<0, 128>> => Int64(r) = -32768
            /\ data = <<127>> => Int64(r) = 127

\* C18 witness: the two bytes 00 80 were read as -32768
C18_Witness ==
    /\ SignedValueReturned
    /\ callArgs = [data |-> <<0, 128>>, size |-> 2]
    /\ returned[1] = <<0, 128, 255, 255, 255, 255, 255, 255>>
    /\ Int64(returned[1]) = -32768

RunListParsed == op = "ParseRunList" /\ pc = "done" /\ callArgs.NonResident # 0

RECURSIVE SumOf(_, _, _)
SumOf(pairs, field, n) ==
    IF n = 0 THEN 0 ELSE SumOf(pairs, field, n - 1) + pairs[n][field]

\* The segments the pairs stand for, the first at virtual cluster lowestVcn
SegmentsOf(pairs, lowestVcn) ==
    [i \in 1..Len(pairs) |->
        [vcnStart |-> lowestVcn + SumOf(pairs, "length", i - 1),
         lcn |-> SumOf(pairs, "delta", i),
         length |-> pairs[i].length,
         sparse |-> pairs[i].osize = 0]]

\* C11: for every sequence of (lengthClusters, signedDelta) pairs encoded as
\* a run list that fits in the attribute, in fields of 1 to 8 bytes,
\* ParseRunList returns one segment per pair with length = lengthClusters,
\* lcn = the sum of the deltas up to and including the pair (a sparse pair,
\* offsetFieldSize = 0, adds 0 and is flagged sparse), vcnStart[0] =
\* LowestVcn and vcnStart[i+1] = vcnStart[i] + length[i].
C11_RunListRoundTrip ==
    RunListParsed =>
        \A pairs \in PairLists : \A tail \in Tails :
            callArgs.runBytes = Encode(pairs) \o tail
                => returned[1] = SegmentsOf(pairs, callArgs.LowestVcn)

\* C11 witness: a run of 300 clusters 10 back, a sparse run and nothing
\* after them, from virtual cluster 5 on
C11_Witness ==
    /\ RunListParsed
    /\ callArgs.LowestVcn = 5
    /\ callArgs.runBytes = <<18, 44, 1, 246, 1, 2>>
    /\ callArgs.runBytes = Encode(<<Pair(300, 2, -10, 1), Pair(2, 1, 0, 0)>>)
    /\ returned[1] = <<[vcnStart |-> 5, lcn |-> -10, length |-> 300, sparse |-> FALSE],
                       [vcnStart |-> 305, lcn |-> -10, length |-> 2, sparse |-> TRUE]>>

\* C17: for every non-resident attribute and every content of its run-list
\* bytes each segment ParseRunList emits has length > 0, so the vcnStart
\* values of the segments are strictly increasing.
C17_RunLengthPositive ==
    RunListParsed =>
        LET runs == returned[1]
        IN  /\ \A i \in DOMAIN runs : runs[i].length > 0
            /\ \A i \in DOMAIN runs : \A j \in DOMAIN runs :
                  i < j => runs[i].vcnStart < runs[j].vcnStart

\* What holds of the lengths as the code has it: a length field of at most 7
\* bytes is never read as a negative length
ShortLengthNotNegative ==
    RunListParsed /\ (\A i \in DOMAIN callArgs.runBytes : callArgs.runBytes[i] % 16 < 8) =>
        \A i \in DOMAIN returned[1] : returned[1][i].length >= 0

\* A handle at the end of an operation: closed once if it was opened, never
\* closed if it was not, and never handed to a call while it was not open
Settled(h) ==
    /\ ~h.misused
    /\ h.handle \in {"none", "closed"}
    /\ h.closes = (IF h.handle = "closed" THEN 1 ELSE 0)

\* C3: in scan, getFileRecord and recoverDataRuns, on every exit path each
\* handle the operation opened (the volume handle, and the output handle in
\* recovery) has been closed exactly once when the result or error is
\* surfaced, and no handle is used after it was closed.
C3_HandlesClosedOnce ==
    /\ ~volume.misused /\ ~output.misused
    /\ volume.closes <= 1 /\ output.closes <= 1
    /\ pc = "done" => Settled(volume) /\ Settled(output)

\* The exit path that is not covered: the buffer allocation at line 828
\* throwing with both handles open.  Every other exit path closes them.
HandlesClosedUnlessAllocationThrows ==
    /\ ~volume.misused /\ ~output.misused
    /\ volume.closes <= 1 /\ output.closes <= 1
    /\ (pc = "done" /\ errorMessage # "vector too long") =>
           Settled(volume) /\ Settled(output)

\* C8: for a drive identifier whose first character is d, each of scan,
\* getFileRecord and recoverDataRuns opens the path backslash, backslash,
\* dot, backslash, D, colon.
C8_SameDevicePath ==
    ("CreateFileW" \in volume.calls /\ drive_[1] = 100) =>
        volume.path = <<92, 92, 46, 92, 68, 58>>

\* getFileRecord and recoverDataRuns open that path; scan opens backslash,
\* dot, backslash, D, colon.
DevicePathPerOperation ==
    ("CreateFileW" \in volume.calls /\ drive_[1] = 100) =>
        volume.path = IF op = "scan" THEN <<92, 46, 92, 68, 58>>
                      ELSE <<92, 92, 46, 92, 68, 58>>

====
